---- MODULE Spec2Model ----
(***************************************************************************)
(* Volunteer Hours Tracker: the flat-file record store and its HTTP        *)
(* handlers (server.js) and the Google Sheets synchronisation              *)
(* (googleSheetsAPI.js: createSheetsClient, updateWorksheet,               *)
(* syncToGoogleSheets).                                                    *)
(*                                                                         *)
(* JavaScript strings are sequences of one-character strings, so that      *)
(* toLowerCase, localeCompare, replace, substring, includes, parseFloat    *)
(* and toFixed are computed character by character.  JavaScript objects    *)
(* are records whose DOMAIN is the set of own properties, so that the      *)
(* object spread { id, ...body, createdAt } is a merge of functions.       *)
(***************************************************************************)
EXTENDS Integers, Sequences, FiniteSets, TLC

\* ------------------------------------------------------------ characters

UpperCase ==
    <<"A", "B", "C", "D", "E", "F", "G", "H", "I", "J", "K", "L", "M",
      "N", "O", "P", "Q", "R", "S", "T", "U", "V", "W", "X", "Y", "Z">>

LowerCase ==
    <<"a", "b", "c", "d", "e", "f", "g", "h", "i", "j", "k", "l", "m",
      "n", "o", "p", "q", "r", "s", "t", "u", "v", "w", "x", "y", "z">>

Digits == <<"0", "1", "2", "3", "4", "5", "6", "7", "8", "9">>

\* The collation order of the characters that occur in lower-cased names:
\* white space, then punctuation, then digits, then letters.
Collation == <<" ", "-", "'", "/">> \o Digits \o LowerCase

Range(s) == {s[i] : i \in DOMAIN s}

IndexOf(c, s) == IF c \in Range(s) THEN CHOOSE i \in DOMAIN s : s[i] = c ELSE 0

IsDigit(c) == c \in Range(Digits)

DigitValue(c) == IndexOf(c, Digits) - 1

\* the character class [a-zA-Z0-9]
IsAlnum(c) == c \in Range(UpperCase) \cup Range(LowerCase) \cup Range(Digits)

\* the values JavaScript prints for a missing property and for null
Undefined == <<"undefined">>

Null == [null |-> TRUE]

\* o.f, for an own property f or a missing one
Get(o, f) == IF f \in DOMAIN o THEN o[f] ELSE Undefined

\* !x for a string-valued or missing property
Falsy(x) == x = Undefined \/ x = <<>>

\* ------------------------------------------------------------ literals

TitleVolunteers ==
    <<"V", "o", "l", "u", "n", "t", "e", "e", "r", "s">>

TitlePrefix ==
    <<"V", "o", "l", "u", "n", "t", "e", "e", "r", " ", "-", " ">>

MsgIncomplete ==
    <<"G", "o", "o", "g", "l", "e", " ", "S", "h", "e", "e", "t", "s", " ", "c", "o", "n", "f",
      "i", "g", "u", "r", "a", "t", "i", "o", "n", " ", "i", "s", " ", "i", "n", "c", "o", "m",
      "p", "l", "e", "t", "e">>

MsgNotConfigured ==
    <<"G", "o", "o", "g", "l", "e", " ", "S", "h", "e", "e", "t", "s", " ", "n", "o", "t", " ",
      "c", "o", "n", "f", "i", "g", "u", "r", "e", "d">>

MsgPermissionHead ==
    <<"P", "e", "r", "m", "i", "s", "s", "i", "o", "n", " ", "d", "e", "n", "i", "e", "d", ":",
      " ", "T", "h", "e", " ", "s", "e", "r", "v", "i", "c", "e", " ", "a", "c", "c", "o", "u",
      "n", "t", " ", "d", "o", "e", "s", " ", "n", "o", "t", " ", "h", "a", "v", "e", " ", "a",
      "c", "c", "e", "s", "s", " ", "t", "o", " ", "t", "h", "i", "s", " ", "s", "p", "r", "e",
      "a", "d", "s", "h", "e", "e", "t", ".", " ", "P", "l", "e", "a", "s", "e", " ", "s", "h",
      "a", "r", "e", " ", "t", "h", "e", " ", "s", "p", "r", "e", "a", "d", "s", "h", "e", "e",
      "t", " ", "w", "i", "t", "h", " ">>

MsgPermissionTail ==
    <<" ", "a", "n", "d", " ", "g", "i", "v", "e", " ", "i", "t", " ", "E", "d", "i", "t", "o",
      "r", " ", "p", "e", "r", "m", "i", "s", "s", "i", "o", "n", ".">>

DefaultServiceEmail ==
    <<"t", "h", "e", " ", "s", "e", "r", "v", "i", "c", "e", " ", "a", "c", "c", "o", "u", "n",
      "t", " ", "e", "m", "a", "i", "l">>

MsgUnknown ==
    <<"U", "n", "k", "n", "o", "w", "n", " ", "e", "r", "r", "o", "r", " ", "d", "u", "r", "i",
      "n", "g", " ", "s", "y", "n", "c">>

Permission ==
    <<"p", "e", "r", "m", "i", "s", "s", "i", "o", "n">>

MsgNotFound ==
    <<"V", "o", "l", "u", "n", "t", "e", "e", "r", " ", "n", "o", "t", " ", "f", "o", "u", "n",
      "d">>

MsgInvalidBody ==
    <<"I", "n", "v", "a", "l", "i", "d", " ", "r", "e", "q", "u", "e", "s", "t", " ", "b", "o",
      "d", "y">>

MsgConfigRequired ==
    <<"S", "h", "e", "e", "t", "s", " ", "c", "o", "n", "f", "i", "g", " ", "i", "s", " ", "r",
      "e", "q", "u", "i", "r", "e", "d">>

NaNText ==
    <<"N", "a", "N">>

DefaultPassword ==
    <<"a", "d", "m", "i", "n", "1", "2", "3">>

volunteersHeader ==
    <<<<"I", "D">>, <<"N", "a", "m", "e">>, <<"P", "h", "o", "n", "e">>,
      <<"E", "m", "a", "i", "l">>,
      <<"T", "o", "t", "a", "l", " ", "H", "o", "u", "r", "s">>>>

eventsHeader ==
    <<<<"I", "D">>, <<"E", "v", "e", "n", "t">>,
      <<"L", "o", "c", "a", "t", "i", "o", "n">>, <<"D", "a", "t", "e">>,
      <<"H", "o", "u", "r", "s">>>>

\* ------------------------------------------------------------ strings

\* String.prototype.toLowerCase
toLowerCase(s) ==
    [i \in DOMAIN s |->
        IF s[i] \in Range(UpperCase) THEN LowerCase[IndexOf(s[i], UpperCase)]
        ELSE s[i]]

Rank(c) == IndexOf(c, Collation)

\* String.prototype.localeCompare: -1, 0 or 1
RECURSIVE localeCompare(_, _)
localeCompare(a, b) ==
    IF a = <<>> /\ b = <<>> THEN 0
    ELSE IF a = <<>> THEN -1
    ELSE IF b = <<>> THEN 1
    ELSE IF Rank(Head(a)) < Rank(Head(b)) THEN -1
    ELSE IF Rank(Head(a)) > Rank(Head(b)) THEN 1
    ELSE localeCompare(Tail(a), Tail(b))

\* s.replace(/[^a-zA-Z0-9]/g, ' ')
replaceNonAlnum(s) == [i \in DOMAIN s |-> IF IsAlnum(s[i]) THEN s[i] ELSE " "]

\* substring that cuts nothing
substringWhole(s, n) == s

\* s.substring(0, n)
substring(s, n) == SubSeq(s, 1, IF Len(s) < n THEN Len(s) ELSE n)

\* s.includes(sub)
includes(s, sub) ==
    \E i \in 1..(Len(s) - Len(sub) + 1) : SubSeq(s, i, i + Len(sub) - 1) = sub

\* ------------------------------------------------------------ numbers

\* A JavaScript number is NaN or a value counted in thousandths; the
\* decimal literals of the model have at most three fractional digits and
\* their sums are exact in binary floating point.
NaN == [nan |-> TRUE, v |-> 0]

Num(v) == [nan |-> FALSE, v |-> v]

Add(x, y) == IF x.nan \/ y.nan THEN NaN ELSE Num(x.v + y.v)

Sub(x, y) == IF x.nan \/ y.nan THEN NaN ELSE Num(x.v - y.v)

RECURSIVE TrimStart(_)
TrimStart(s) == IF s # <<>> /\ Head(s) = " " THEN TrimStart(Tail(s)) ELSE s

\* the length of the longest prefix of s made of decimal digits
RECURSIVE DigitRun(_)
DigitRun(s) == IF s # <<>> /\ IsDigit(Head(s)) THEN 1 + DigitRun(Tail(s)) ELSE 0

RECURSIVE DigitsToInt(_)
DigitsToInt(s) ==
    IF s = <<>> THEN 0
    ELSE DigitsToInt(SubSeq(s, 1, Len(s) - 1)) * 10 + DigitValue(s[Len(s)])

\* the thousandths that the fractional digits d stand for
Thousandths(d) ==
    IF Len(d) = 0 THEN 0
    ELSE IF Len(d) = 1 THEN DigitsToInt(d) * 100
    ELSE IF Len(d) = 2 THEN DigitsToInt(d) * 10
    ELSE DigitsToInt(SubSeq(d, 1, 3))

\* parseFloat: leading white space is skipped, then the longest prefix that
\* is a decimal literal (sign, digits, point, digits) is the value; no such
\* prefix is NaN.  What follows the literal is ignored.
parseFloat(x) ==
    LET t == TrimStart(x)
        neg == t # <<>> /\ Head(t) = "-"
        u == IF t # <<>> /\ Head(t) \in {"-", "+"} THEN Tail(t) ELSE t
        n == DigitRun(u)
        rest == SubSeq(u, n + 1, Len(u))
        point == rest # <<>> /\ Head(rest) = "."
        m == IF point THEN DigitRun(Tail(rest)) ELSE 0
        frac == IF point THEN SubSeq(rest, 2, m + 1) ELSE <<>>
        mag == DigitsToInt(SubSeq(u, 1, n)) * 1000 + Thousandths(frac)
    IN  IF n = 0 /\ m = 0 THEN NaN ELSE Num(IF neg THEN 0 - mag ELSE mag)

\* the decimal digits of a natural number
RECURSIVE IntToStr(_)
IntToStr(n) ==
    IF n < 10 THEN <<Digits[n + 1]>>
    ELSE IntToStr(n \div 10) \o <<Digits[(n % 10) + 1]>>

\* Number.prototype.toFixed(2): rounded half up to hundredths, always two
\* fractional digits; NaN prints as "NaN"
toFixed2(x) ==
    IF x.nan THEN NaNText
    ELSE LET a == IF x.v < 0 THEN 0 - x.v ELSE x.v
             h == (a + 5) \div 10
             f == h % 100
         IN  (IF x.v < 0 THEN <<"-">> ELSE <<>>)
                 \o IntToStr(h \div 100) \o <<".">>
                 \o <<Digits[(f \div 10) + 1], Digits[(f % 10) + 1]>>

\* new Date(s).getTime() for a date s: "YYYY-MM-DD" orders as its calendar
\* day, anything else is an invalid date (NaN)
DateValue(s) ==
    IF /\ s # Undefined
       /\ Len(s) = 10
       /\ s[5] = "-" /\ s[8] = "-"
       /\ \A i \in {1, 2, 3, 4, 6, 7, 9, 10} : IsDigit(s[i])
    THEN Num((DigitsToInt(SubSeq(s, 1, 4)) * 12 + DigitsToInt(SubSeq(s, 6, 7))) * 31
                 + DigitsToInt(SubSeq(s, 9, 10)))
    ELSE NaN

\* ------------------------------------------------------------ bounds

\* the number of requests (HTTP requests, or direct calls) of one behaviour
MaxReq == 2

\* the number of volunteers and of events a persisted store starts with
MaxVolunteers == 2

MaxEvents == 2

\* ------------------------------------------------------------ values

\* Volunteer names.  "a-l" and "a l" are distinct names with one worksheet
\* title; "Bo" sorts after both only when case is ignored.
Names == {<<"B", "o">>, <<"a", "-", "l">>, <<"a", " ", "l">>}

\* ids that generateId returned in earlier runs of the server
OldIds == <<<<"v", "1">>, <<"v", "2">>, <<"v", "3">>, <<"v", "4">>>>

\* an id no volunteer carries
UnknownId == <<"z", "z">>

\* the dates of events: a later and an earlier day
LaterDate == <<"2", "0", "2", "4", "-", "0", "1", "-", "0", "2">>

EarlierDate == <<"2", "0", "2", "3", "-", "1", "2", "-", "3", "1">>

\* the hours and the date of an event as clients send them: hours "2" and
\* "1.5", an unparsable "x", and no hours at all
EventKinds ==
    {<<<<"2">>, LaterDate>>, <<<<"1", ".", "5">>, EarlierDate>>,
     <<<<"x">>, LaterDate>>, <<Undefined, EarlierDate>>}

PhoneText == <<"5", "5", "5">>

EmailText == <<"a", "@", "b">>

EventName == <<"G", "a", "l", "a">>

LocationText == <<"H", "a", "l", "l">>

SpreadsheetId == <<"S", "1">>

ClientEmail == <<"s", "v", "c", "@", "x">>

\* messages of the errors the remote API raises
ErrPermission ==
    <<"T", "h", "e", " ", "c", "a", "l", "l", "e", "r", " ", "d", "o", "e", "s", " ",
      "n", "o", "t", " ", "h", "a", "v", "e", " ", "p", "e", "r", "m", "i", "s", "s",
      "i", "o", "n">>

ErrQuota == <<"Q", "u", "o", "t", "a", " ", "e", "x", "c", "e", "e", "d", "e", "d">>

ErrorMessages == {ErrPermission, ErrQuota}

\* the content of a worksheet that an earlier sync or a person left
OldRows == <<<<<<"o", "l", "d">>>>, <<<<"o", "l", "d">>>>, <<<<"o", "l", "d">>>>>>

\* ------------------------------------------------------------ the sync, pure parts

\* configIncomplete without the test of the credentials
configIncompleteNoCredentials(sheetsConfig) ==
    \/ sheetsConfig = Null
    \/ Falsy(Get(sheetsConfig, "spreadsheetId"))

\* !sheetsConfig || !sheetsConfig.spreadsheetId || !sheetsConfig.credentials
configIncomplete(sheetsConfig) ==
    \/ sheetsConfig = Null
    \/ Falsy(Get(sheetsConfig, "spreadsheetId"))
    \/ "credentials" \notin DOMAIN sheetsConfig

\* compareNames without toLowerCase
compareNamesCaseSensitive(a, b) == localeCompare(a.name, b.name)

\* (a, b) => a.name.toLowerCase().localeCompare(b.name.toLowerCase())
compareNames(a, b) == localeCompare(toLowerCase(a.name), toLowerCase(b.name))

\* Array.prototype.sort is stable: the last element goes after every element
\* of the sorted rest that does not compare greater than it
RECURSIVE sortVolunteers(_)
sortVolunteers(s) ==
    IF s = <<>> THEN <<>>
    ELSE LET rest == sortVolunteers(SubSeq(s, 1, Len(s) - 1))
             x == s[Len(s)]
             k == Cardinality({i \in DOMAIN rest : compareNames(rest[i], x) <= 0})
         IN  SubSeq(rest, 1, k) \o <<x>> \o SubSeq(rest, k + 1, Len(rest))

\* volunteerEventsOf without the filter
volunteerEventsOfAll(evs, volunteer) == evs

\* events.filter(event => event.volunteerId === volunteer.id)
volunteerEventsOf(evs, volunteer) ==
    SelectSeq(evs, LAMBDA e : Get(e, "volunteerId") = Get(volunteer, "id"))

\* parseFloat(event.hours || 0)
hoursOf(event) ==
    IF Falsy(Get(event, "hours")) THEN parseFloat(<<"0">>)
    ELSE parseFloat(event.hours)

\* volunteerEvents.reduce((sum, event) => sum + parseFloat(event.hours || 0), 0)
RECURSIVE totalHours(_)
totalHours(evs) ==
    IF evs = <<>> THEN Num(0)
    ELSE Add(totalHours(SubSeq(evs, 1, Len(evs) - 1)), hoursOf(evs[Len(evs)]))

\* the rows of the Volunteers worksheet
volunteersData(sorted, evs) ==
    [i \in DOMAIN sorted |->
        <<i, Get(sorted[i], "name"), Get(sorted[i], "phone"), Get(sorted[i], "email"),
          toFixed2(totalHours(volunteerEventsOf(evs, sorted[i])))>>]

\* (a, b) => new Date(a.date) - new Date(b.date); sort reads NaN as 0
compareDates(a, b) ==
    LET d == Sub(DateValue(Get(a, "date")), DateValue(Get(b, "date")))
    IN  IF d.nan THEN 0 ELSE d.v

\* Array.prototype.sort on fewer than 64 elements, as V8 runs it: the
\* longest run the array starts with is found (a strictly descending run is
\* reversed), and each element after it is inserted into the run by binary
\* search.  With a comparator that orders the elements this is a stable
\* sort; with one that does not (an invalid date compares as equal to every
\* date) it is what the engine does.
Reverse(s) == [i \in DOMAIN s |-> s[Len(s) + 1 - i]]

\* the end of the run of s that reaches at least to idx - 1
RECURSIVE runLength(_, _, _)
runLength(s, idx, isDescending) ==
    IF idx > Len(s) THEN Len(s)
    ELSE LET order == compareDates(s[idx], s[idx - 1])
         IN  IF (isDescending /\ order >= 0) \/ (~isDescending /\ order < 0)
             THEN idx - 1
             ELSE runLength(s, idx + 1, isDescending)

\* the array with its first run made ascending, and the length of that run
countAndMakeRun(s) ==
    LET isDescending == compareDates(s[2], s[1]) < 0
        n == runLength(s, 3, isDescending)
    IN  [length |-> n,
         list |-> IF isDescending THEN Reverse(SubSeq(s, 1, n)) \o SubSeq(s, n + 1, Len(s))
                  ELSE s]

\* how many of the first `right` elements of s stay before pivot: the binary
\* search between left and right
RECURSIVE insertionPoint(_, _, _, _)
insertionPoint(s, pivot, left, right) ==
    IF left >= right THEN left
    ELSE LET mid == left + ((right - left) \div 2)
         IN  IF compareDates(pivot, s[mid + 1]) < 0
             THEN insertionPoint(s, pivot, left, mid)
             ELSE insertionPoint(s, pivot, mid + 1, right)

\* the first `start` elements of s are sorted: insert the others in turn
RECURSIVE binaryInsertionSort(_, _)
binaryInsertionSort(s, start) ==
    IF start >= Len(s) THEN s
    ELSE LET pivot == s[start + 1]
             left == insertionPoint(s, pivot, 0, start)
         IN  binaryInsertionSort(
                 SubSeq(s, 1, left) \o <<pivot>> \o SubSeq(s, left + 1, start)
                     \o SubSeq(s, start + 2, Len(s)),
                 start + 1)

\* volunteerEvents.sort((a, b) => new Date(a.date) - new Date(b.date))
sortEvents(s) ==
    IF Len(s) < 2 THEN s
    ELSE LET run == countAndMakeRun(s)
         IN  binaryInsertionSort(run.list, run.length)

\* `Volunteer - ${volunteer.name.replace(/[^a-zA-Z0-9]/g, ' ')}`.substring(0, 30)
volunteerSheetName(volunteer) ==
    substring(TitlePrefix \o replaceNonAlnum(volunteer.name), 30)

\* the rows of a volunteer's own worksheet
volunteerEventsData(sortedEvents) ==
    [i \in DOMAIN sortedEvents |->
        <<i, Get(sortedEvents[i], "name"), Get(sortedEvents[i], "location"),
          Get(sortedEvents[i], "date"), Get(sortedEvents[i], "hours")>>]

\* ------------------------------------------------------------ state

VARIABLES
    volunteers,   \* data/volunteers.json: the array of volunteers
    events,       \* data/events.json: the array of events
    config,       \* data/config.json: { adminPassword, sheetsConfig }
    remote,       \* the spreadsheet: worksheet title -> rows of cells
    reqs,         \* the requests so far, in order of arrival
    idCount,      \* how many ids generateId has returned
    now           \* the server's clock

vars == <<volunteers, events, config, remote, reqs, idCount, now>>

\* crypto.randomUUID(): an id never returned before
generateId(n) == <<"s">> \o IntToStr(n)

\* new Date().toISOString()
toISOString(t) == <<"2", "0", "2", "5", "-", "0", "1", "-">> \o
                  (IF t < 10 THEN <<"0">> ELSE <<>>) \o IntToStr(t)

\* ------------------------------------------------------------ the sync

NoSync == [call |-> "none", log |-> <<>>, result |-> [pending |-> TRUE]]

Pending(result) == "pending" \in DOMAIN result

\* the catch of syncToGoogleSheets: return { success: false, error: error.message }
syncFailed(s, message) ==
    [s EXCEPT !.call = "none", !.result = [success |-> FALSE, error |-> message]]

\* updateWorksheet up to its first await: sheets.spreadsheets.get is issued
updateWorksheet(s, i, sheetTitle, headerRow, data) ==
    [s EXCEPT !.i = i, !.call = "get", !.sheetTitle = sheetTitle,
              !.rows = <<headerRow>> \o data, !.exists = FALSE,
              !.log = Append(@, [ev |-> "issue", op |-> "get", title |-> sheetTitle,
                                 message |-> <<>>])]

\* syncLoop reading the stored events anew at every worksheet, in place of
\* the array it was passed
syncLoopRereads(s, i) ==
    LET withEvents == {j \in i..Len(s.sortedVolunteers) :
                          volunteerEventsOf(events, s.sortedVolunteers[j]) # <<>>}
    IN  IF withEvents = {}
        THEN [s EXCEPT !.call = "none",
                       !.result = [success |-> TRUE,
                                   volunteersCount |-> Len(s.volunteers),
                                   eventsCount |-> Len(s.events)]]
        ELSE LET j == CHOOSE k \in withEvents : \A m \in withEvents : k <= m
                 volunteer == s.sortedVolunteers[j]
             IN  updateWorksheet(s, j, volunteerSheetName(volunteer), eventsHeader,
                     volunteerEventsData(
                         sortEvents(volunteerEventsOf(events, volunteer))))

\* the loop over sortedVolunteers from index i on, up to its next await:
\* the first volunteer with events gets a worksheet, and with none left the
\* sync returns its counts
syncLoop(s, i) ==
    LET withEvents == {j \in i..Len(s.sortedVolunteers) :
                          volunteerEventsOf(s.events, s.sortedVolunteers[j]) # <<>>}
    IN  IF withEvents = {}
        THEN [s EXCEPT !.call = "none",
                       !.result = [success |-> TRUE,
                                   volunteersCount |-> Len(s.volunteers),
                                   eventsCount |-> Len(s.events)]]
        ELSE LET j == CHOOSE k \in withEvents : \A m \in withEvents : k <= m
                 volunteer == s.sortedVolunteers[j]
             IN  updateWorksheet(s, j, volunteerSheetName(volunteer), eventsHeader,
                     volunteerEventsData(
                         sortEvents(volunteerEventsOf(s.events, volunteer))))

\* syncToGoogleSheets with volunteers.sort(...) in place of
\* [...volunteers].sort(...): the caller's array is the sorted one
syncToGoogleSheetsSortsInPlace(sheetsConfig, vols, evs, clientError) ==
    LET s0 == [sheetsConfig |-> sheetsConfig, volunteers |-> vols, events |-> evs,
               sortedVolunteers |-> <<>>, i |-> 0, call |-> "none",
               sheetTitle |-> <<>>, rows |-> <<>>, exists |-> FALSE,
               log |-> <<>>, result |-> [pending |-> TRUE]]
    IN  IF configIncomplete(sheetsConfig) THEN syncFailed(s0, MsgIncomplete)
        ELSE LET s1 == [s0 EXCEPT !.log = <<[ev |-> "issue", op |-> "client",
                                             title |-> <<>>, message |-> <<>>]>>]
             IN  IF clientError # Undefined
                 THEN syncFailed([s1 EXCEPT !.log = Append(@,
                                      [ev |-> "error", op |-> "client", title |-> <<>>,
                                       message |-> clientError])],
                                 clientError)
                 ELSE LET sorted == sortVolunteers(vols)
                      IN  updateWorksheet([s1 EXCEPT !.sortedVolunteers = sorted,
                                                     !.volunteers = sorted],
                              0, TitleVolunteers, volunteersHeader,
                              volunteersData(sorted, evs))

\* syncToGoogleSheets up to its first await.  clientError is the message of
\* the error createSheetsClient throws, or Undefined when it returns a client.
syncToGoogleSheets(sheetsConfig, vols, evs, clientError) ==
    LET s0 == [sheetsConfig |-> sheetsConfig, volunteers |-> vols, events |-> evs,
               sortedVolunteers |-> <<>>, i |-> 0, call |-> "none",
               sheetTitle |-> <<>>, rows |-> <<>>, exists |-> FALSE,
               log |-> <<>>, result |-> [pending |-> TRUE]]
    IN  IF configIncomplete(sheetsConfig) THEN syncFailed(s0, MsgIncomplete)
        ELSE LET s1 == [s0 EXCEPT !.log = <<[ev |-> "issue", op |-> "client",
                                             title |-> <<>>, message |-> <<>>]>>]
             IN  IF clientError # Undefined
                 THEN syncFailed([s1 EXCEPT !.log = Append(@,
                                      [ev |-> "error", op |-> "client", title |-> <<>>,
                                       message |-> clientError])],
                                 clientError)
                 ELSE LET sorted == sortVolunteers(vols)
                      IN  updateWorksheet([s1 EXCEPT !.sortedVolunteers = sorted],
                              0, TitleVolunteers, volunteersHeader,
                              volunteersData(sorted, evs))

\* the request that a remote call of the sync s sends next, after the call
\* `op` returned: addSheet after a get that did not list the title, then
\* clear, then update
issue(s, op) ==
    [s EXCEPT !.call = op,
              !.log = Append(@, [ev |-> "issue", op |-> op, title |-> s.sheetTitle,
                                 message |-> <<>>])]

returned(s, ev, message) ==
    [s EXCEPT !.log = Append(@, [ev |-> ev, op |-> s.call, title |-> s.sheetTitle,
                                 message |-> message])]

\* values.update at A1 writes the given rows over what the range holds
overwrite(old, rows) == rows \o SubSeq(old, Len(rows) + 1, Len(old))

\* the rows of the worksheet `title`; a worksheet that does not exist has none
content(sheet, title) == IF title \in DOMAIN sheet THEN sheet[title] ELSE <<>>

\* what the spreadsheet holds after the remote call `op` on `title` succeeded
remoteAfter(sheet, op, title, rows) ==
    IF op = "get" THEN sheet
    ELSE [t \in DOMAIN sheet \cup {title} |->
             IF t # title THEN sheet[t]
             ELSE IF op = "update" THEN overwrite(sheet[t], rows)
             ELSE <<>>]

\* syncResumed without the values.clear of updateWorksheet: the rows are
\* written over what the worksheet holds
syncResumedNoClear(s, titles) ==
    LET t == returned(s, "ok", <<>>)
    IN  IF s.call = "get" THEN
            LET sheetExists == s.sheetTitle \in titles
                u == [t EXCEPT !.exists = sheetExists]
            IN  IF ~sheetExists THEN issue(u, "addSheet") ELSE issue(u, "update")
        ELSE IF s.call = "addSheet" THEN issue(t, "update")
        ELSE syncLoop(t, s.i + 1)

\* syncResumed without the addSheet request of updateWorksheet: the clear
\* follows the get whether the title exists or not
syncResumedNoCreate(s, titles) ==
    LET t == returned(s, "ok", <<>>)
    IN  IF s.call = "get" THEN issue([t EXCEPT !.exists = s.sheetTitle \in titles], "clear")
        ELSE IF s.call = "addSheet" THEN issue(t, "clear")
        ELSE IF s.call = "clear" THEN issue(t, "update")
        ELSE syncLoop(t, s.i + 1)

\* syncResumed with values.clear not awaited: the update is issued while
\* the clear is in flight
syncResumedClearNotAwaited(s, titles) ==
    LET t == returned(s, "ok", <<>>)
    IN  IF s.call = "get" THEN
            LET sheetExists == s.sheetTitle \in titles
                u == [t EXCEPT !.exists = sheetExists]
            IN  IF ~sheetExists THEN issue(u, "addSheet")
                ELSE issue(issue(u, "clear"), "update")
        ELSE IF s.call = "addSheet" THEN issue(issue(t, "clear"), "update")
        ELSE syncLoop(t, s.i + 1)

\* the sync s resumed after its remote call returned successfully, up to its
\* next await; titles are the worksheet titles the spreadsheet holds
syncResumed(s, titles) ==
    LET t == returned(s, "ok", <<>>)
    IN  IF s.call = "get" THEN
            LET sheetExists == s.sheetTitle \in titles
                u == [t EXCEPT !.exists = sheetExists]
            IN  IF ~sheetExists THEN issue(u, "addSheet") ELSE issue(u, "clear")
        ELSE IF s.call = "addSheet" THEN issue(t, "clear")
        ELSE IF s.call = "clear" THEN issue(t, "update")
        ELSE syncLoop(t, s.i + 1)

\* syncThrown with the error caught inside the loop: the sync goes on to the
\* next worksheet
syncThrownContinues(s, message) == syncLoop(returned(s, "error", message), s.i + 1)

\* the sync s resumed after its remote call threw: updateWorksheet rethrows
\* and syncToGoogleSheets returns the failure
syncThrown(s, message) == syncFailed(returned(s, "error", message), message)

\* ------------------------------------------------------------ requests

\* a request body that JSON.parse rejects
BadJson == [badJson |-> TRUE]

CompleteConfig ==
    [spreadsheetId |-> SpreadsheetId, credentials |-> [client_email |-> ClientEmail]]

\* the values of sheetsConfig: null, complete, without credentials, without
\* a spreadsheet id
SheetsConfigs ==
    {Null, CompleteConfig, [spreadsheetId |-> SpreadsheetId],
     [credentials |-> [client_email |-> ClientEmail]]}

\* what a client sends to POST /api/volunteers: the fields of a volunteer,
\* alone or with an id and a createdAt of the client's choosing
ClientTime == <<"1", "9", "9", "9", "-", "0", "1", "-", "0", "1">>

VolunteerBodies ==
    LET plain == {[name |-> n, phone |-> PhoneText, email |-> EmailText]
                     : n \in {<<"a", " ", "l">>}}
    IN  plain \cup {[id |-> OldIds[1], createdAt |-> ClientTime] @@ b : b \in plain}

\* what a client sends to POST /api/events: an event of the first volunteer
\* without date and hours, the same with an id and a createdAt of the
\* client's choosing, and an event of no volunteer with a date and hours
EventBodies ==
    LET plain == [volunteerId |-> OldIds[1], name |-> EventName,
                  location |-> LocationText]
    IN  {plain, [id |-> OldIds[1], createdAt |-> ClientTime] @@ plain,
         [volunteerId |-> UnknownId, name |-> EventName, location |-> LocationText,
          date |-> EarlierDate, hours |-> <<"x">>]}

\* what a client sends to POST /api/sheets/config
ConfigBodies ==
    {[sheetsConfig |-> c] : c \in {Null, CompleteConfig, [spreadsheetId |-> SpreadsheetId]}}

Ids(list) == {Get(list[i], "id") : i \in DOMAIN list}

\* a request as it arrives; concurrent is the set of requests that are still
\* being handled at that moment
\* A request as it arrives: its kind, where its handler stands (pc), its
\* body, the sync it runs and its response (status 0 until it is sent).
\* The other fields record what happened, for the properties below:
\* concurrent, the requests still being handled when this one arrived;
\* generated, the id generateId returned to the handler; before, what the
\* worksheet of the running updateWorksheet held when its first remote call
\* returned; written, the worksheets whose updateWorksheet returned.
Request(kind, body) ==
    [kind |-> kind, pc |-> "parse", body |-> body, sync |-> NoSync,
     response |-> [status |-> 0],
     concurrent |-> {r \in DOMAIN reqs : reqs[r].pc # "done"},
     generated |-> Undefined, before |-> <<>>, written |-> <<>>]

Respond(r, response) ==
    reqs' = [reqs EXCEPT ![r].pc = "done", ![r].response = response]

\* push on an array that was not read from the file: the write holds the new
\* record alone
pushOnEmpty(list, item) == <<item>>

\* volunteers.push(newVolunteer), events.push(newEvent)
push(list, item) == Append(list, item)

\* { id: generateId(), ...body, createdAt: new Date().toISOString() }
newVolunteer(body, id, time) ==
    [createdAt |-> toISOString(time)] @@ body @@ [id |-> id]

\* { id: generateId(), ...body, date: body.date || new Date().toISOString(),
\*   createdAt: new Date().toISOString() }
newEvent(body, id, time) ==
    [createdAt |-> toISOString(time),
     date |-> IF Falsy(Get(body, "date")) THEN toISOString(time) ELSE body.date]
        @@ body @@ [id |-> id]

\* POST /api/volunteers, up to await parseBody(req)
PostVolunteer(body) ==
    /\ Len(reqs) < MaxReq
    /\ reqs' = Append(reqs, Request("postVolunteer", body))
    /\ UNCHANGED <<volunteers, events, config, remote, idCount, now>>

\* POST /api/volunteers, from the parsed body to the response
PostVolunteerParsed(r) ==
    /\ reqs[r].kind = "postVolunteer" /\ reqs[r].pc = "parse"
    /\ IF reqs[r].body = BadJson
       THEN /\ Respond(r, [status |-> 400, error |-> MsgInvalidBody])
            /\ UNCHANGED <<volunteers, events, config, remote, idCount, now>>
       ELSE LET created == newVolunteer(reqs[r].body, generateId(idCount + 1), now + 1)
            IN  /\ volunteers' = push(volunteers, created)
                /\ idCount' = idCount + 1
                /\ now' = now + 1
                /\ reqs' = [reqs EXCEPT ![r].pc = "done",
                                        ![r].generated = generateId(idCount + 1),
                                        ![r].response = [status |-> 201,
                                                         created |-> created]]
                /\ UNCHANGED <<events, config, remote>>

\* POST /api/events, up to await parseBody(req)
PostEvent(body) ==
    /\ Len(reqs) < MaxReq
    /\ reqs' = Append(reqs, Request("postEvent", body))
    /\ UNCHANGED <<volunteers, events, config, remote, idCount, now>>

\* POST /api/events, from the parsed body to the response
PostEventParsed(r) ==
    /\ reqs[r].kind = "postEvent" /\ reqs[r].pc = "parse"
    /\ IF reqs[r].body = BadJson
       THEN /\ Respond(r, [status |-> 400, error |-> MsgInvalidBody])
            /\ UNCHANGED <<volunteers, events, config, remote, idCount, now>>
       ELSE LET created == newEvent(reqs[r].body, generateId(idCount + 1), now + 1)
            IN  /\ events' = push(events, created)
                /\ idCount' = idCount + 1
                /\ now' = now + 1
                /\ reqs' = [reqs EXCEPT ![r].pc = "done",
                                        ![r].generated = generateId(idCount + 1),
                                        ![r].response = [status |-> 201,
                                                         created |-> created]]
                /\ UNCHANGED <<volunteers, config, remote>>

\* volunteers.findIndex(v => v.id === id), 0 for -1
findIndex(list, id) ==
    IF id \in Ids(list)
    THEN CHOOSE i \in DOMAIN list :
             /\ Get(list[i], "id") = id
             /\ \A j \in 1..(i - 1) : Get(list[j], "id") # id
    ELSE 0

\* volunteers.splice(index, 1)
splice(list, index) == SubSeq(list, 1, index - 1) \o SubSeq(list, index + 1, Len(list))

\* DELETE /api/volunteers/:id: the handler awaits nothing
DeleteVolunteer(id) ==
    /\ Len(reqs) < MaxReq
    /\ LET volunteerIndex == findIndex(volunteers, id)
           done(response) ==
               Append(reqs, [Request("delete", [id |-> id]) EXCEPT
                                 !.pc = "done", !.response = response])
       IN  IF volunteerIndex = 0
           THEN /\ reqs' = done([status |-> 404, error |-> MsgNotFound])
                /\ UNCHANGED <<volunteers, events>>
           ELSE /\ volunteers' = splice(volunteers, volunteerIndex)
                /\ events' = SelectSeq(events, LAMBDA e : Get(e, "volunteerId") # id)
                /\ reqs' = done([status |-> 200, success |-> TRUE])
    /\ UNCHANGED <<config, remote, idCount, now>>

\* POST /api/sheets/config, up to await parseBody(req)
PostConfig(body) ==
    /\ Len(reqs) < MaxReq
    /\ reqs' = Append(reqs, Request("postConfig", body))
    /\ UNCHANGED <<volunteers, events, config, remote, idCount, now>>

\* POST /api/sheets/config, from the parsed body to the response
PostConfigParsed(r) ==
    /\ reqs[r].kind = "postConfig" /\ reqs[r].pc = "parse"
    /\ IF reqs[r].body = BadJson
       THEN /\ Respond(r, [status |-> 400, error |-> MsgInvalidBody])
            /\ UNCHANGED config
       ELSE IF "sheetsConfig" \notin DOMAIN reqs[r].body \/ reqs[r].body.sheetsConfig = Null
       THEN /\ Respond(r, [status |-> 400, error |-> MsgConfigRequired])
            /\ UNCHANGED config
       ELSE /\ config' = [config EXCEPT !.sheetsConfig = reqs[r].body.sheetsConfig]
            /\ Respond(r, [status |-> 200, success |-> TRUE])
    /\ UNCHANGED <<volunteers, events, remote, idCount, now>>

\* config.sheetsConfig.credentials?.client_email || 'the service account email'
serviceEmailOf(sheetsConfig) ==
    IF "credentials" \in DOMAIN sheetsConfig
           /\ ~Falsy(Get(sheetsConfig.credentials, "client_email"))
    THEN sheetsConfig.credentials.client_email
    ELSE DefaultServiceEmail

\* syncResponse without the special handling of permission errors
syncResponseNoPermission(sheetsConfig, syncResult, vols, evs) ==
    IF syncResult.success
    THEN [status |-> 200, success |-> TRUE,
          newData |-> [volunteers |-> Len(vols), events |-> Len(evs)]]
    ELSE [status |-> 500, success |-> FALSE,
          error |-> IF Falsy(syncResult.error) THEN MsgUnknown ELSE syncResult.error,
          serviceEmail |-> serviceEmailOf(sheetsConfig)]

\* the response of POST /api/sync/sheets to the result of the sync
syncResponse(sheetsConfig, syncResult, vols, evs) ==
    IF syncResult.success
    THEN [status |-> 200, success |-> TRUE,
          newData |-> [volunteers |-> Len(vols), events |-> Len(evs)]]
    ELSE IF ~Falsy(syncResult.error) /\ includes(syncResult.error, Permission)
    THEN [status |-> 403, success |-> FALSE,
          error |-> MsgPermissionHead \o serviceEmailOf(sheetsConfig)
                        \o MsgPermissionTail,
          serviceEmail |-> serviceEmailOf(sheetsConfig)]
    ELSE [status |-> 500, success |-> FALSE,
          error |-> IF Falsy(syncResult.error) THEN MsgUnknown ELSE syncResult.error,
          serviceEmail |-> serviceEmailOf(sheetsConfig)]

\* !config.sheetsConfig || !config.sheetsConfig.spreadsheetId
notConfigured(sheetsConfig) ==
    sheetsConfig = Null \/ Falsy(Get(sheetsConfig, "spreadsheetId"))

\* a request whose sync has settled is answered, another waits for its
\* remote call
settle(req, s) ==
    IF Pending(s.result) THEN [req EXCEPT !.pc = "remote", !.sync = s]
    ELSE [req EXCEPT
             !.pc = "done", !.sync = s,
             !.response =
                 IF req.kind = "sync"
                 THEN syncResponse(s.sheetsConfig, s.result, s.volunteers, s.events)
                 ELSE @]

\* POST /api/sync/sheets, up to the first await inside syncToGoogleSheets
SyncSheets(clientError) ==
    /\ Len(reqs) < MaxReq
    /\ LET req == Request("sync", [config |-> config])
       IN  IF notConfigured(config.sheetsConfig)
           THEN reqs' = Append(reqs, [req EXCEPT
                            !.pc = "done",
                            !.response = [status |-> 400, success |-> FALSE,
                                          error |-> MsgNotConfigured]])
           ELSE reqs' = Append(reqs,
                            settle(req, syncToGoogleSheets(config.sheetsConfig,
                                            volunteers, events, clientError)))
    /\ UNCHANGED <<volunteers, events, config, remote, idCount, now>>

\* a direct call of the exported syncToGoogleSheets, up to its first await
CallSync(clientError) ==
    /\ reqs = <<>>
    /\ reqs' = <<settle(Request("call", [config |-> config]),
                        syncToGoogleSheets(config.sheetsConfig, volunteers, events,
                                           clientError))>>
    /\ UNCHANGED <<volunteers, events, config, remote, idCount, now>>

\* the remote call of request r returns: the spreadsheet has carried it out
\* and the sync runs on to its next await, or to its end
RemoteReturns(r) ==
    /\ reqs[r].pc = "remote"
    /\ LET s == reqs[r].sync
       IN  /\ s.call = "addSheet" => s.sheetTitle \notin DOMAIN remote
           /\ remote' = remoteAfter(remote, s.call, s.sheetTitle, s.rows)
           /\ reqs' = [reqs EXCEPT ![r] =
                  settle([@ EXCEPT
                             !.before = IF s.call = "get"
                                        THEN content(remote, s.sheetTitle) ELSE @,
                             !.written = IF s.call = "update"
                                         THEN Append(@, [title |-> s.sheetTitle,
                                                         rows |-> s.rows])
                                         ELSE @],
                         syncResumed(s, DOMAIN remote))]
    /\ UNCHANGED <<volunteers, events, config, idCount, now>>

\* the remote call of request r throws: the spreadsheet is as it was
RemoteThrows(r, message) ==
    /\ reqs[r].pc = "remote"
    /\ reqs' = [reqs EXCEPT ![r] = settle(@, syncThrown(reqs[r].sync, message))]
    /\ UNCHANGED <<volunteers, events, config, remote, idCount, now>>

\* ------------------------------------------------------------ stores

StoredTime == <<"2", "0", "2", "4", "-", "1", "2", "-", "0", "1">>

StoredVolunteer(k, name) ==
    [id |-> OldIds[k], name |-> name, phone |-> PhoneText, email |-> EmailText,
     createdAt |-> StoredTime]

\* the names the k-th stored volunteer may have: all but one, in turn
NamesAt(k) ==
    Names \ {<<<<"a", " ", "l">>, <<"B", "o">>, <<"a", "-", "l">>>>[((k - 1) % 3) + 1]}

\* the lists of at most MaxVolunteers stored volunteers
VolunteerLists ==
    UNION {{[k \in 1..n |-> StoredVolunteer(k, f[k])]
                : f \in {g \in [1..n -> Names] : \A k \in 1..n : g[k] \in NamesAt(k)}}
               : n \in 0..MaxVolunteers}

\* an event of a stored volunteer or of none, with hours or without
StoredEvent(k, c) ==
    LET e == [id |-> <<"e">> \o IntToStr(k), volunteerId |-> c[1], name |-> EventName,
              location |-> LocationText, date |-> c[2][2], createdAt |-> StoredTime]
    IN  IF c[2][1] = Undefined THEN e ELSE [hours |-> c[2][1]] @@ e

EventChoices == {OldIds[1], OldIds[2], UnknownId} \X EventKinds

\* every list of at most MaxEvents stored events
EventLists ==
    UNION {{[k \in 1..n |-> StoredEvent(k, f[k])] : f \in [1..n -> EventChoices]}
               : n \in 0..MaxEvents}

Configs == {[adminPassword |-> DefaultPassword, sheetsConfig |-> c] : c \in SheetsConfigs}

\* the worksheet titles of the sync
Titles == {TitleVolunteers} \cup {volunteerSheetName([name |-> n]) : n \in Names}

\* a spreadsheet without worksheets of the sync, and one that holds them all
Spreadsheets == {[t \in {} |-> <<>>], [t \in Titles |-> OldRows]}

\* the stores the server is started on: the k-th volunteer has the k-th name
\* of the roster, an event belongs to the first or the second volunteer
RosterNames == <<<<"B", "o">>, <<"a", "-", "l">>, <<"a", " ", "l">>>>

ServerVolunteerLists ==
    {[k \in 1..n |-> StoredVolunteer(k, RosterNames[((k - 1) % Len(RosterNames)) + 1])]
         : n \in 0..MaxVolunteers}

ServerEventChoices == {OldIds[1], OldIds[2]} \X {<<<<"2">>, LaterDate>>}

ServerEventLists ==
    UNION {{[k \in 1..n |-> StoredEvent(k, f[k])] : f \in [1..n -> ServerEventChoices]}
               : n \in 0..MaxEvents}

\* ------------------------------------------------------------ the server

Init ==
    /\ volunteers \in ServerVolunteerLists
    /\ events \in ServerEventLists
    /\ config \in Configs
    /\ remote = [t \in Titles |-> OldRows]
    /\ reqs = <<>>
    /\ idCount = 0
    /\ now = 0

Next ==
    \/ \E body \in VolunteerBodies \cup {BadJson} : PostVolunteer(body)
    \/ \E r \in DOMAIN reqs : PostVolunteerParsed(r)
    \/ \E body \in EventBodies \cup {BadJson} : PostEvent(body)
    \/ \E r \in DOMAIN reqs : PostEventParsed(r)
    \/ \E id \in Ids(volunteers) \cup {UnknownId} : DeleteVolunteer(id)
    \/ \E body \in ConfigBodies \cup {BadJson} : PostConfig(body)
    \/ \E r \in DOMAIN reqs : PostConfigParsed(r)
    \/ \E e \in {Undefined} \cup ErrorMessages : SyncSheets(e)
    \/ \E r \in DOMAIN reqs : RemoteReturns(r)
    \/ \E r \in DOMAIN reqs, m \in ErrorMessages : RemoteThrows(r, m)

Spec == Init /\ [][Next]_vars

\* ------------------------------------------------------------ one call of the sync

SyncNext ==
    \/ \E e \in {Undefined} \cup ErrorMessages : CallSync(e)
    \/ \E r \in DOMAIN reqs : RemoteReturns(r)
    \/ \E r \in DOMAIN reqs, m \in ErrorMessages : RemoteThrows(r, m)

SyncInit ==
    /\ volunteers \in VolunteerLists
    /\ events \in EventLists
    /\ config \in Configs
    /\ remote \in Spreadsheets
    /\ reqs = <<>>
    /\ idCount = 0
    /\ now = 0

SyncSpec == SyncInit /\ [][SyncNext]_vars

\* ------------------------------------------------------------ one worksheet

\* the number of events of the volunteer whose worksheet is written
MaxDated == 3

\* a date that new Date() cannot parse
InvalidDate == <<"s", "o", "o", "n">>

DateTexts == {EarlierDate, LaterDate, InvalidDate}

\* a name of 23 characters; with the prefix of 12 the title of every name
\* of more than 18 characters is cut
LongName ==
    <<"O", "'", "B", "r", "i", "e", "n", "/", "S", "m", "i", "t", "h",
      "-", "J", "o", "n", "e", "s", " ", "3", "r", "d">>

LongNames == {SubSeq(LongName, 1, n) : n \in 1..Len(LongName)}

\* the k-th event of the first volunteer, on the given date
DatedEvent(k, date) ==
    [id |-> <<"e">> \o IntToStr(k), volunteerId |-> OldIds[1], name |-> EventName,
     location |-> LocationText, date |-> date, hours |-> <<"2">>,
     createdAt |-> StoredTime]

\* every list of at most MaxDated events of the first volunteer
DatedEventLists ==
    UNION {{[k \in 1..n |-> DatedEvent(k, f[k])] : f \in [1..n -> DateTexts]}
               : n \in 0..MaxDated}

\* one call of syncToGoogleSheets for a volunteer with a long name and dated
\* events, listed before a volunteer "Bo" without events, on an empty
\* spreadsheet
WorksheetInit ==
    /\ volunteers \in {<<StoredVolunteer(1, n), StoredVolunteer(2, <<"B", "o">>)>>
                           : n \in LongNames}
    /\ events \in DatedEventLists
    /\ config = [adminPassword |-> DefaultPassword, sheetsConfig |-> CompleteConfig]
    /\ remote = [t \in {} |-> <<>>]
    /\ reqs = <<>>
    /\ idCount = 0
    /\ now = 0

WorksheetSpec == WorksheetInit /\ [][SyncNext]_vars

\* ------------------------------------------------------------ properties

Last(s) == s[Len(s)]

\* the sync of request r threw out of updateWorksheet: its last remote call
\* returned an error
Thrown(r) ==
    /\ reqs[r].sync.log # <<>>
    /\ Last(reqs[r].sync.log).ev = "error"
    /\ Last(reqs[r].sync.log).op # "client"

\* the last write of request r to the worksheet `title`, 0 if there is none
lastWrite(r, title) ==
    LET ws == {w \in DOMAIN reqs[r].written : reqs[r].written[w].title = title}
    IN  IF ws = {} THEN 0 ELSE CHOOSE w \in ws : \A x \in ws : x <= w

Returned(r) ==
    /\ reqs[r].written # <<>>
    /\ \/ reqs[r].sync.call = "get"
       \/ ("success" \in DOMAIN reqs[r].sync.result /\ reqs[r].sync.result.success)

\* updateWorksheet of request r has thrown after its get had returned
ThrownAfterGet(r) == Thrown(r) /\ Last(reqs[r].sync.log).op # "get"

\* C2 as stated: after updateWorksheet returns or throws, the worksheet holds
\* what it held before the call or exactly [header, ...rows].
C2_Atomic ==
    \A r \in DOMAIN reqs :
        /\ Returned(r) =>
               content(remote, Last(reqs[r].written).title) = Last(reqs[r].written).rows
        /\ ThrownAfterGet(r) =>
               \/ content(remote, reqs[r].sync.sheetTitle) = reqs[r].before
               \/ content(remote, reqs[r].sync.sheetTitle) = reqs[r].sync.rows

\* C2 amended: after updateWorksheet returns, the worksheet holds exactly
\* [header, ...rows]; after it throws, the worksheet holds what it held
\* before the call or nothing (created or cleared, and not rewritten).
C2_ReplacedOrEmptied ==
    \A r \in DOMAIN reqs :
        /\ Returned(r) =>
               content(remote, Last(reqs[r].written).title) = Last(reqs[r].written).rows
        /\ ThrownAfterGet(r) =>
               \/ content(remote, reqs[r].sync.sheetTitle) = reqs[r].before
               \/ content(remote, reqs[r].sync.sheetTitle) = <<>>

\* updateWorksheet threw at its update, after its clear had emptied a
\* worksheet that held rows
C2_Witness ==
    \E r \in DOMAIN reqs :
        /\ Thrown(r)
        /\ Last(reqs[r].sync.log).op = "update"
        /\ reqs[r].before = OldRows
        /\ content(remote, reqs[r].sync.sheetTitle) = <<>>

\* C3: DELETE /api/volunteers/:id of a stored id answers 200 and leaves no
\* volunteer with that id and no event of that volunteer, every other
\* volunteer and event being as it was; of an unknown id it answers 404 and
\* leaves both collections as they were.
C3_DeleteCascades ==
    [][\A id \in Ids(volunteers) \cup {UnknownId} :
           DeleteVolunteer(id) =>
               IF id \in Ids(volunteers)
               THEN /\ Last(reqs').response.status = 200
                    /\ id \notin Ids(volunteers')
                    /\ volunteers' = SelectSeq(volunteers, LAMBDA v : Get(v, "id") # id)
                    /\ events' = SelectSeq(events, LAMBDA e : Get(e, "volunteerId") # id)
               ELSE /\ Last(reqs').response.status = 404
                    /\ UNCHANGED <<volunteers, events>>]_vars

\* request r is a POST that stored a record
Created(r) ==
    /\ reqs[r].kind \in {"postVolunteer", "postEvent"}
    /\ reqs[r].response.status = 201

\* C4: the record a POST stores carries the id that generateId returned to
\* its handler, never a value of the request body, and a createdAt read from
\* the server's clock.
C4_ServerGeneratedId ==
    \A r \in DOMAIN reqs :
        Created(r) =>
            /\ reqs[r].response.created.id = reqs[r].generated
            /\ \E t \in 1..now : reqs[r].response.created.createdAt = toISOString(t)

\* the sync of request r has returned { success: true, ... }
Succeeded(r) ==
    "success" \in DOMAIN reqs[r].sync.result /\ reqs[r].sync.result.success

\* the volunteers of the sync of request r that have events
WithEvents(r) ==
    {i \in DOMAIN reqs[r].sync.sortedVolunteers :
        volunteerEventsOf(reqs[r].sync.events, reqs[r].sync.sortedVolunteers[i]) # <<>>}

\* C5: after a successful sync, two distinct volunteers with events have
\* distinct worksheet titles, and the worksheet of each volunteer with events
\* holds exactly that volunteer's events.
C5_OneWorksheetPerVolunteer ==
    \A r \in DOMAIN reqs :
        Succeeded(r) =>
            LET s == reqs[r].sync
            IN  /\ \A i, j \in WithEvents(r) :
                       i # j => volunteerSheetName(s.sortedVolunteers[i])
                                    # volunteerSheetName(s.sortedVolunteers[j])
                /\ \A i \in WithEvents(r) :
                       content(remote, volunteerSheetName(s.sortedVolunteers[i]))
                           = <<eventsHeader>> \o volunteerEventsData(sortEvents(
                                 volunteerEventsOf(s.events, s.sortedVolunteers[i])))

\* the sum the claim states: parseFloat(hours) over the events, an
\* unparsable or missing value counting as 0
RECURSIVE claimedTotal(_)
claimedTotal(evs) ==
    IF evs = <<>> THEN 0
    ELSE LET h == Get(Last(evs), "hours")
             x == IF h = Undefined THEN NaN ELSE parseFloat(h)
         IN  claimedTotal(SubSeq(evs, 1, Len(evs) - 1)) + (IF x.nan THEN 0 ELSE x.v)

\* C6: in the rows written to the Volunteers worksheet, the Total Hours cell
\* of each volunteer is the claimed total of exactly that volunteer's events,
\* printed with two decimals.
C6_TotalHours ==
    \A r \in DOMAIN reqs :
        reqs[r].written # <<>> =>
            LET s == reqs[r].sync
                rows == reqs[r].written[1].rows
            IN  \A i \in DOMAIN s.sortedVolunteers :
                    rows[i + 1][5] =
                        toFixed2(Num(claimedTotal(SelectSeq(s.events,
                            LAMBDA e : Get(e, "volunteerId")
                                           = Get(s.sortedVolunteers[i], "id")))))

\* request r stored a record that is in its collection
Stored(r) ==
    IF reqs[r].kind = "postVolunteer"
    THEN \E i \in DOMAIN volunteers : volunteers[i] = reqs[r].response.created
    ELSE \E i \in DOMAIN events : events[i] = reqs[r].response.created

\* a DELETE that arrived after request r may have removed the record that r
\* stored
Deleted(r) ==
    \E d \in DOMAIN reqs :
        /\ d > r
        /\ reqs[d].kind = "delete" /\ reqs[d].response.status = 200
        /\ reqs[d].body.id =
               IF reqs[r].kind = "postVolunteer" THEN Get(reqs[r].response.created, "id")
               ELSE Get(reqs[r].response.created, "volunteerId")

\* requests a and b are two overlapping POSTs to one collection that both
\* answered 201
OverlappingWrites(a, b) ==
    /\ a \in reqs[b].concurrent
    /\ Created(a) /\ Created(b)
    /\ reqs[a].kind = reqs[b].kind

Unconfigured(sheetsConfig) ==
    \/ sheetsConfig = Null
    \/ "spreadsheetId" \notin DOMAIN sheetsConfig
    \/ sheetsConfig.spreadsheetId = <<>>
    \/ "credentials" \notin DOMAIN sheetsConfig

\* C8: a call of syncToGoogleSheets with an unconfigured sheetsConfig returns
\* the configuration error and issues no remote call: no client is
\* constructed, nothing is queried, created, cleared or written.
C8_NoRemoteCallUnconfigured ==
    \A r \in DOMAIN reqs :
        (reqs[r].kind = "call" /\ Unconfigured(reqs[r].body.config.sheetsConfig)) =>
            /\ reqs[r].pc = "done"
            /\ reqs[r].sync.log = <<>>
            /\ reqs[r].sync.result = [success |-> FALSE, error |-> MsgIncomplete]
            /\ remote \in Spreadsheets

\* syncToGoogleSheets was called with a spreadsheet identifier and without
\* credentials, and has returned
C8_Witness ==
    \E r \in DOMAIN reqs :
        /\ reqs[r].kind = "call" /\ reqs[r].pc = "done"
        /\ reqs[r].body.config.sheetsConfig = [spreadsheetId |-> SpreadsheetId]
        /\ volunteers # <<>>

\* C9: POST /api/sync/sheets answers 400 whenever the stored configuration is
\* unconfigured, and answers 403 or 500 only for a configured sync.
C9_UnconfiguredIs400 ==
    \A r \in DOMAIN reqs :
        (reqs[r].kind = "sync" /\ reqs[r].pc = "done") =>
            /\ Unconfigured(reqs[r].body.config.sheetsConfig)
                   => reqs[r].response.status = 400
            /\ reqs[r].response.status \in {403, 500}
                   => ~Unconfigured(reqs[r].body.config.sheetsConfig)

\* part occurs in text
Contains(text, part) ==
    \E i \in 1..(Len(text) - Len(part) + 1) : SubSeq(text, i, i + Len(part) - 1) = part

\* request r is a configured POST /api/sync/sheets whose sync failed
ConfiguredSyncFailed(r) ==
    /\ reqs[r].kind = "sync" /\ reqs[r].pc = "done"
    /\ ~Unconfigured(reqs[r].body.config.sheetsConfig)
    /\ reqs[r].sync.log # <<>>
    /\ Last(reqs[r].sync.log).ev = "error"

\* C10: when a configured sync fails with an error whose message contains
\* "permission", POST /api/sync/sheets answers 403 with a message that names
\* the client_email of the configured credentials; with any other error it
\* answers 500 with the message of the error.
C10_PermissionIs403 ==
    \A r \in DOMAIN reqs :
        ConfiguredSyncFailed(r) =>
            LET message == Last(reqs[r].sync.log).message
                email == reqs[r].body.config.sheetsConfig.credentials.client_email
            IN  IF Contains(message, Permission)
                THEN /\ reqs[r].response.status = 403
                     /\ Contains(reqs[r].response.error, email)
                ELSE /\ reqs[r].response.status = 500
                     /\ reqs[r].response.error = message

\* a sync failed on a permission error of a remote call and was answered 403
C10_Witness ==
    \E r \in DOMAIN reqs :
        /\ ConfiguredSyncFailed(r)
        /\ Last(reqs[r].sync.log).op = "get"
        /\ Last(reqs[r].sync.log).message = ErrPermission
        /\ reqs[r].response.status = 403

\* the volunteers of the sync of request r that have no event
WithoutEvents(r) ==
    {i \in DOMAIN reqs[r].sync.sortedVolunteers :
        volunteerEventsOf(reqs[r].sync.events, reqs[r].sync.sortedVolunteers[i]) = <<>>}

\* C11: a sync issues no remote call against the individual worksheet of a
\* volunteer without events: no get, addSheet, clear or update of its log
\* carries that volunteer's worksheet title, and nothing is written to it.
C11_NoCallForVolunteerWithoutEvents ==
    \A r \in DOMAIN reqs :
        \A i \in WithoutEvents(r) :
            LET title == volunteerSheetName(reqs[r].sync.sortedVolunteers[i])
            IN  /\ \A p \in DOMAIN reqs[r].sync.log : reqs[r].sync.log[p].title # title
                /\ \A w \in DOMAIN reqs[r].written : reqs[r].written[w].title # title

\* the update of a worksheet of request r has just returned: the sync has
\* done nothing since but issue the get of the next worksheet.  What a sync
\* has written never changes afterwards, so a property of the worksheet
\* last written is checked in this state.
JustWritten(r) ==
    LET log == reqs[r].sync.log
        n == Len(log)
        done(p) == p > 0 /\ log[p].ev = "ok" /\ log[p].op = "update"
    IN  /\ reqs[r].written # <<>>
        /\ \/ done(n)
           \/ log[n].ev = "issue" /\ log[n].op = "get" /\ done(n - 1)

\* the rows request r has just written to the Volunteers worksheet; none in
\* any other state
VolunteersRows(r) ==
    IF JustWritten(r) /\ Len(reqs[r].written) = 1 THEN reqs[r].written[1].rows
    ELSE <<>>

\* the letter c with its case ignored
FoldCase(c) ==
    IF \E i \in DOMAIN UpperCase : UpperCase[i] = c
    THEN LowerCase[CHOOSE i \in DOMAIN UpperCase : UpperCase[i] = c]
    ELSE c

\* name a does not come after name b in lexicographic order, case ignored
NameLeq(a, b) ==
    \/ /\ Len(a) <= Len(b)
       /\ \A k \in 1..Len(a) : FoldCase(a[k]) = FoldCase(b[k])
    \/ \E k \in 1..Len(a) :
           /\ k <= Len(b)
           /\ \A j \in 1..(k - 1) : FoldCase(a[j]) = FoldCase(b[j])
           /\ Rank(FoldCase(a[k])) < Rank(FoldCase(b[k]))

\* the one-to-one maps of 1..n onto itself
Permutations1(n) ==
    {f \in [1..n -> 1..n] : \A i, j \in 1..n : i # j => f[i] # f[j]}

\* C12: the rows written to the Volunteers worksheet are the header and one
\* row per volunteer of the list, in ascending order of name with case
\* ignored, and the display IDs in row order are 1, 2, ..., N.
C12_VolunteersRows ==
    \A r \in DOMAIN reqs :
        LET rows == VolunteersRows(r)
            vols == reqs[r].sync.volunteers
        IN  rows # <<>> =>
                /\ rows[1] = volunteersHeader
                /\ Len(rows) = Len(vols) + 1
                /\ \A k \in 1..Len(vols) : rows[k + 1][1] = k
                /\ \A k, l \in 1..Len(vols) :
                       k < l => NameLeq(rows[k + 1][2], rows[l + 1][2])
                /\ \E f \in Permutations1(Len(vols)) :
                       \A k \in 1..Len(vols) :
                           /\ rows[k + 1][2] = vols[f[k]].name
                           /\ rows[k + 1][3] = vols[f[k]].phone
                           /\ rows[k + 1][4] = vols[f[k]].email

\* the Volunteers worksheet was written for the list "Bo", "a l": the rows
\* are in another order than the list
C12_Witness ==
    \E r \in DOMAIN reqs :
        /\ reqs[r].written # <<>>
        /\ Len(reqs[r].sync.volunteers) = 2
        /\ reqs[r].sync.volunteers[1].name = <<"B", "o">>
        /\ reqs[r].sync.volunteers[2].name = <<"a", " ", "l">>
        /\ reqs[r].written[1].rows[2][2] = <<"a", " ", "l">>
        /\ reqs[r].written[1].rows[3][2] = <<"B", "o">>

\* the rows are in ascending order of date: no row with a date comes before
\* a row with an earlier date (a row without a valid date is in order
\* wherever it stands)
AscendingDates(rows) ==
    \A k, l \in DOMAIN rows :
        (k < l /\ ~DateValue(rows[k][4]).nan /\ ~DateValue(rows[l][4]).nan) =>
            DateValue(rows[k][4]).v <= DateValue(rows[l][4]).v

\* the rows are the events evs, one row each, numbered 1..M in row order
RowsOfEvents(rows, evs) ==
    /\ Len(rows) = Len(evs)
    /\ \A k \in DOMAIN rows : rows[k][1] = k
    /\ \E f \in Permutations1(Len(evs)) :
           \A k \in DOMAIN rows :
               rows[k] = <<k, Get(evs[f[k]], "name"), Get(evs[f[k]], "location"),
                           Get(evs[f[k]], "date"), Get(evs[f[k]], "hours")>>

\* C13: the rows written to the individual worksheet of a volunteer with
\* events are the header and exactly that volunteer's events, in ascending
\* order of date, numbered 1..M in row order whatever the volunteer's own
\* display ID.
C13_EventRows ==
    \A r \in DOMAIN reqs :
        \A w \in DOMAIN reqs[r].written :
            reqs[r].written[w].title # TitleVolunteers =>
                LET rows == reqs[r].written[w].rows
                    s == reqs[r].sync
                IN  /\ rows[1] = eventsHeader
                    /\ AscendingDates(Tail(rows))
                    /\ \E i \in WithEvents(r) :
                           /\ volunteerSheetName(s.sortedVolunteers[i])
                                  = reqs[r].written[w].title
                           /\ RowsOfEvents(Tail(rows),
                                  SelectSeq(s.events, LAMBDA e :
                                      Get(e, "volunteerId") = Get(s.sortedVolunteers[i], "id")))

\* event e of the sync of request r belongs to no volunteer of that sync
Orphan(r, e) == Get(e, "volunteerId") \notin Ids(reqs[r].sync.volunteers)

\* the events of the sync of request r without the orphans
NonOrphans(r) == SelectSeq(reqs[r].sync.events, LAMBDA e : ~Orphan(r, e))

\* C14: orphaned events do not make a sync fail and are not in its output.
\* A sync fails only on an incomplete configuration or on the error of a
\* remote call or of the construction of the client; every Total Hours cell
\* written is the total of the volunteer's events that are not orphans; and
\* every individual worksheet written holds rows of non-orphan events only.
C14_OrphansExcluded ==
    \A r \in DOMAIN reqs :
        LET s == reqs[r].sync
            rows == VolunteersRows(r)
        IN  /\ ("success" \in DOMAIN s.result /\ ~s.result.success) =>
                   \/ s.log = <<>> /\ Unconfigured(s.sheetsConfig)
                   \/ s.log # <<>> /\ Last(s.log).ev = "error"
            /\ rows # <<>> =>
                   \A k \in DOMAIN s.sortedVolunteers :
                       rows[k + 1][5] = toFixed2(totalHours(SelectSeq(NonOrphans(r),
                           LAMBDA e : Get(e, "volunteerId")
                                          = Get(s.sortedVolunteers[k], "id"))))
            /\ (JustWritten(r) /\ Len(reqs[r].written) > 1) =>
                   \E i \in DOMAIN s.sortedVolunteers :
                       /\ volunteerSheetName(s.sortedVolunteers[i])
                              = Last(reqs[r].written).title
                       /\ RowsOfEvents(Tail(Last(reqs[r].written).rows),
                              SelectSeq(NonOrphans(r), LAMBDA e :
                                  Get(e, "volunteerId")
                                      = Get(s.sortedVolunteers[i], "id")))

\* a sync of a volunteer with one event succeeded although the other event
\* is an orphan with two hours: the volunteer's total counts one event
C14_Witness ==
    \E r \in DOMAIN reqs :
        /\ Succeeded(r)
        /\ Len(reqs[r].sync.events) = 2
        /\ Len(NonOrphans(r)) = 1
        /\ \E k \in DOMAIN reqs[r].sync.events :
               /\ Orphan(r, reqs[r].sync.events[k])
               /\ Get(reqs[r].sync.events[k], "hours") = <<"2">>
        /\ Len(reqs[r].written) = 2
        /\ Len(reqs[r].written[2].rows) = 2

\* request r is a POST /api/sync/sheets that called syncToGoogleSheets
SyncCalled(r) == reqs[r].kind = "sync" /\ "volunteers" \in DOMAIN reqs[r].sync

\* C15: a sync mutates no local state.  The step in which POST
\* /api/sync/sheets arrives and every later step of its sync leave the
\* stored volunteers, events and config as they are; the arrays passed to
\* syncToGoogleSheets are the stored ones and stay as they were passed.
C15_NoLocalMutation ==
    [][\A r \in DOMAIN reqs' :
           (reqs'[r].kind = "sync" /\ (r \notin DOMAIN reqs \/ reqs'[r] # reqs[r])) =>
               /\ UNCHANGED <<volunteers, events, config>>
               /\ "volunteers" \in DOMAIN reqs'[r].sync =>
                      IF r \in DOMAIN reqs
                      THEN /\ reqs'[r].sync.volunteers = reqs[r].sync.volunteers
                           /\ reqs'[r].sync.events = reqs[r].sync.events
                      ELSE /\ reqs'[r].sync.volunteers = volunteers
                           /\ reqs'[r].sync.events = events]_vars

\* a POST /api/sync/sheets was answered 200 for two stored volunteers that
\* the sync wrote in another order than they are stored in
C15_Witness ==
    \E r \in DOMAIN reqs :
        /\ SyncCalled(r) /\ reqs[r].pc = "done"
        /\ reqs[r].response.status = 200
        /\ Len(reqs[r].sync.volunteers) = 2
        /\ reqs[r].sync.sortedVolunteers # reqs[r].sync.volunteers
        /\ volunteers = reqs[r].sync.volunteers

\* the title the claim derives from a name: every character outside a-z,
\* A-Z, 0-9 becomes a space, "Volunteer - " goes in front, and at most 30
\* characters are kept
ClaimedTitle(name) ==
    LET kept == Range(UpperCase) \cup Range(LowerCase) \cup Range(Digits)
        full == <<"V", "o", "l", "u", "n", "t", "e", "e", "r", " ", "-", " ">>
                    \o [i \in DOMAIN name |-> IF name[i] \in kept THEN name[i] ELSE " "]
    IN  [i \in 1..(IF Len(full) > 30 THEN 30 ELSE Len(full)) |-> full[i]]

\* the name and the title of the example: "O'Brien/Smith" gives
\* "Volunteer - O Brien Smith"
ExampleName ==
    <<"O", "'", "B", "r", "i", "e", "n", "/", "S", "m", "i", "t", "h">>

ExampleTitle ==
    <<"V", "o", "l", "u", "n", "t", "e", "e", "r", " ", "-", " ",
      "O", " ", "B", "r", "i", "e", "n", " ", "S", "m", "i", "t", "h">>

\* C16: every remote call for an individual worksheet carries the title
\* derived from the name of a volunteer with events: the name with each
\* character outside a-z, A-Z, 0-9 replaced by a space, prefixed with
\* "Volunteer - " and cut to 30 characters; the name "O'Brien/Smith" gives
\* "Volunteer - O Brien Smith".
C16_TitleDerivation ==
    \A r \in DOMAIN reqs :
        \A p \in DOMAIN reqs[r].sync.log :
            LET title == reqs[r].sync.log[p].title
            IN  (title # <<>> /\ title # TitleVolunteers) =>
                    /\ Len(title) <= 30
                    /\ \E i \in WithEvents(r) :
                           LET name == reqs[r].sync.sortedVolunteers[i].name
                           IN  /\ title = ClaimedTitle(name)
                               /\ name = ExampleName => title = ExampleTitle

\* the worksheet of the volunteer with the name of 23 characters was
\* written: its title is cut to 30 characters and ends with "Jone"
C16_Witness ==
    \E r \in DOMAIN reqs :
        /\ Len(reqs[r].written) = 2
        /\ \E i \in WithEvents(r) : reqs[r].sync.sortedVolunteers[i].name = LongName
        /\ Len(reqs[r].written[2].title) = 30
        /\ SubSeq(reqs[r].written[2].title, 26, 30) = <<" ", "J", "o", "n", "e">>

\* the position in the log of the get that opened the updateWorksheet call
\* the log ends in; 0 when no call has been made
LastGet(log) ==
    LET gets == {p \in DOMAIN log : log[p].ev = "issue" /\ log[p].op = "get"}
    IN  IF gets = {} THEN 0 ELSE CHOOSE p \in gets : \A q \in gets : q <= p

\* the remote operations issued from position g of the log on, in order
IssuedFrom(log, g) ==
    LET issued == SelectSeq(SubSeq(log, g, Len(log)), LAMBDA e : e.ev = "issue")
    IN  [k \in DOMAIN issued |-> issued[k].op]

IsPrefix(a, b) == Len(a) <= Len(b) /\ \A k \in DOMAIN a : a[k] = b[k]

\* the operations of the latest updateWorksheet call of sync s are issued in
\* the order get, addSheet, clear, update, each after the one before has
\* returned, all for one title, with addSheet left out when the get listed
\* the title
CallInOrder(s) ==
    LET g == LastGet(s.log)
    IN  g > 0 =>
            /\ \A p \in g..Len(s.log) : s.log[p].title = s.log[g].title
            /\ \A p \in (g + 1)..Len(s.log) :
                   s.log[p].ev = "issue" =>
                       s.log[p - 1].ev = "ok" /\ s.log[p - 1].op # s.log[p].op
            /\ IsPrefix(IssuedFrom(s.log, g),
                        IF s.exists THEN <<"get", "clear", "update">>
                        ELSE <<"get", "addSheet", "clear", "update">>)

\* C17: each updateWorksheet call issues get, then addSheet, then clear,
\* then update, in this order and for its own title; addSheet follows the
\* get if and only if the spreadsheet did not hold the title when the get
\* returned, so clear and update are issued only for a title that existed
\* then or was created since.
C17_CallOrder ==
    [][\A r \in DOMAIN reqs' :
           /\ CallInOrder(reqs'[r].sync)
           /\ (/\ r \in DOMAIN reqs
               /\ reqs[r].pc = "remote" /\ reqs[r].sync.call = "get"
               /\ Len(reqs'[r].sync.log) > Len(reqs[r].sync.log)
               /\ Last(reqs'[r].sync.log).ev = "issue") =>
                  /\ reqs'[r].sync.exists <=> reqs[r].sync.sheetTitle \in DOMAIN remote
                  /\ Last(reqs'[r].sync.log).op = "addSheet"
                         <=> reqs[r].sync.sheetTitle \notin DOMAIN remote
                  /\ Last(reqs'[r].sync.log).op = "clear"
                         <=> reqs[r].sync.sheetTitle \in DOMAIN remote]_vars

\* a sync created the Volunteers worksheet, cleared it and wrote it
C17_Witness ==
    \E r \in DOMAIN reqs :
        /\ reqs[r].written # <<>>
        /\ Len(reqs[r].sync.log) >= 9
        /\ [k \in 1..4 |-> reqs[r].sync.log[2 * k].op]
               = <<"get", "addSheet", "clear", "update">>
        /\ \A k \in 1..4 : reqs[r].sync.log[2 * k].ev = "issue"
        /\ \A k \in 1..4 : reqs[r].sync.log[2 * k + 1].ev = "ok"

\* the entries of a log that belong to remote calls
RemoteEntries(log) == SelectSeq(log, LAMBDA e : e.op # "client")

\* C18: within one sync at most one remote call is in flight.  The remote
\* entries of its log alternate between a call issued and that call
\* completed; a worksheet is begun only after the update of the one before
\* has returned; and the first worksheet is Volunteers, whose update has
\* returned before any call for an individual worksheet is issued.
C18_OneCallInFlight ==
    \A r \in DOMAIN reqs :
        LET e == RemoteEntries(reqs[r].sync.log)
        IN  /\ \A p \in DOMAIN e :
                   IF p % 2 = 1
                   THEN /\ e[p].ev = "issue"
                        /\ p = 1 => e[p].op = "get"
                        /\ e[p].op = "get" =>
                               \/ p = 1 /\ e[p].title = TitleVolunteers
                               \/ /\ p > 1 /\ e[p - 1].ev = "ok" /\ e[p - 1].op = "update"
                                  /\ e[p].title # TitleVolunteers
                        /\ e[p].op # "get" => e[p - 1].title = e[p].title
                   ELSE /\ e[p].ev \in {"ok", "error"}
                        /\ e[p].op = e[p - 1].op /\ e[p].title = e[p - 1].title
            /\ reqs[r].sync.call # "none" <=> Len(e) % 2 = 1

\* a sync has processed the Volunteers worksheet and one individual
\* worksheet to the end, one call after the other
C18_Witness ==
    \E r \in DOMAIN reqs :
        /\ Succeeded(r)
        /\ Len(reqs[r].written) = 2
        /\ reqs[r].written[1].title = TitleVolunteers
        /\ reqs[r].written[2].title # TitleVolunteers
        /\ Len(RemoteEntries(reqs[r].sync.log)) >= 12

\* the rows of the individual worksheet of volunteer v, computed from the
\* events evs
SheetOf(v, evs) ==
    <<eventsHeader>> \o volunteerEventsData(sortEvents(
        SelectSeq(evs, LAMBDA e : Get(e, "volunteerId") = Get(v, "id"))))

\* every worksheet the sync of the request req has written, and the counts
\* of its response, are computed from the arrays it was called with
FromSnapshot(req) ==
    LET s == req.sync
    IN  /\ \A w \in DOMAIN req.written :
               IF w = 1
               THEN req.written[w] =
                        [title |-> TitleVolunteers,
                         rows |-> <<volunteersHeader>>
                                      \o volunteersData(sortVolunteers(s.volunteers), s.events)]
               ELSE \E i \in DOMAIN s.volunteers :
                        req.written[w] =
                            [title |-> volunteerSheetName(s.volunteers[i]),
                             rows |-> SheetOf(s.volunteers[i], s.events)]
        /\ req.response.status = 200 =>
               req.response.newData
                   = [volunteers |-> Len(s.volunteers), events |-> Len(s.events)]

\* C19: a sync works on one snapshot of the store.  The volunteers and the
\* events it is called with are the stored ones of the single state in which
\* POST /api/sync/sheets arrives; and whatever other requests store later,
\* every worksheet it writes and the counts of its 200 response are computed
\* from those two arrays.
C19_OneSnapshot ==
    [][\A r \in DOMAIN reqs' :
           (reqs'[r].kind = "sync" /\ "volunteers" \in DOMAIN reqs'[r].sync) =>
               /\ r \notin DOMAIN reqs =>
                      /\ reqs'[r].sync.volunteers = volunteers
                      /\ reqs'[r].sync.events = events
                      /\ UNCHANGED <<volunteers, events>>
               /\ FromSnapshot(reqs'[r])]_vars

\* a volunteer was deleted while a sync was in flight; the sync then wrote
\* that volunteer's worksheet with the events the store no longer holds and
\* answered 200 with the counts of its snapshot
C19_Witness ==
    \E r, d \in DOMAIN reqs :
        /\ reqs[r].kind = "sync" /\ reqs[r].pc = "done"
        /\ reqs[r].response.status = 200
        /\ reqs[d].kind = "delete" /\ reqs[d].response.status = 200
        /\ r \in reqs[d].concurrent
        /\ reqs[d].body.id \notin Ids(volunteers)
        /\ Len(reqs[r].written) = 2
        /\ \E i \in DOMAIN reqs[r].sync.volunteers :
               /\ Get(reqs[r].sync.volunteers[i], "id") = reqs[d].body.id
               /\ reqs[r].written[2].title = volunteerSheetName(reqs[r].sync.volunteers[i])
               /\ Len(reqs[r].written[2].rows) > 1
        /\ reqs[r].response.newData.volunteers > Len(volunteers)
        /\ reqs[r].response.newData.events > Len(events)

====
